---- MODULE Spec2Model ----
(***************************************************************************)
(* Model of the SVG asset tools of burningxt/ppt-generator:                *)
(*   tools/fix_image_aspect.py  (dimension prober, aspect-fit calculator,  *)
(*                               geometry fixer)                           *)
(*   tools/embed_images.py      (asset embedder)                           *)
(*                                                                         *)
(* Numbers.  Python floats are modelled by exact rationals <<n, d>> with   *)
(* d > 0.  Box attributes (x, y, width, height) are kept in tenths of a    *)
(* user unit, the precision the fixer writes with "{:.1f}".  The only      *)
(* places where binary floating point can differ from the exact rational   *)
(* are exact ties of the one-decimal formatting (x.x5): there the digit    *)
(* printed depends on the binary neighbour of the value, so both           *)
(* neighbours are possible outcomes (RoundTenths returns a set).           *)
(***************************************************************************)
EXTENDS Integers, Naturals, Sequences, FiniteSets, TLC

VARIABLES
    fitIn, fitOut,                       \* calculator called on its own
    stream, ppc, pos, presult,           \* signature decoders
    fdisk, fnodes, fpc, fi, fdry, fixed_count, frun, flog, lastCall,
    edisk, etree, epc, images_to_process, ei, edry, images_embedded,
    modified, erun, elog, fsys, nextId

fitVars   == <<fitIn, fitOut>>
probeVars == <<stream, ppc, pos, presult>>
fixVars   == <<fdisk, fnodes, fpc, fi, fdry, fixed_count, frun, flog, lastCall>>
embVars   == <<edisk, etree, epc, images_to_process, ei, edry,
               images_embedded, modified, erun, elog, fsys, nextId>>
vars      == <<fitVars, probeVars, fixVars, embVars>>

None == [tag |-> "None"]

-----------------------------------------------------------------------------
(* Exact rationals standing for Python floats.                             *)

Abs(n) == IF n < 0 THEN -n ELSE n

R(n, d) == <<n, d>>

RInt(n) == <<n, 1>>

RLess(a, b) == a[1] * b[2] < b[1] * a[2]

RLeq(a, b) == a[1] * b[2] <= b[1] * a[2]

REq(a, b) == a[1] * b[2] = b[1] * a[2]

RAdd(a, b) == <<a[1] * b[2] + b[1] * a[2], a[2] * b[2]>>

RSub(a, b) == <<a[1] * b[2] - b[1] * a[2], a[2] * b[2]>>

RMul(a, b) == <<a[1] * b[1], a[2] * b[2]>>

\* a / b for b # 0; the denominator is kept positive
RDiv(a, b) ==
    IF b[1] > 0 THEN <<a[1] * b[2], a[2] * b[1]>>
    ELSE <<-(a[1] * b[2]), -(a[2] * b[1])>>

RHalf(a) == <<a[1], 2 * a[2]>>

RAbs(a) == <<Abs(a[1]), a[2]>>

-----------------------------------------------------------------------------
(* Aspect-fit calculator: fix_image_aspect.py, calculate_fitted_dimensions *)

ZeroDivisionError == [tag |-> "ZeroDivisionError"]

\* the same function with the branch test of both modes inverted
calculate_fitted_dimensions_flipped(img_width, img_height, box_width, box_height, mode) ==
    IF img_height = 0 \/ box_height = 0 THEN ZeroDivisionError
    ELSE
      LET img_ratio == R(img_width, img_height)
          box_ratio == R(box_width, box_height)
          clampW    == (mode = "meet") = RLess(img_ratio, box_ratio)
      IN  IF clampW /\ img_ratio[1] = 0 THEN ZeroDivisionError
          ELSE
            LET new_width  == IF clampW THEN RInt(box_width)
                              ELSE RMul(RInt(box_height), img_ratio)
                new_height == IF clampW THEN RDiv(RInt(box_width), img_ratio)
                              ELSE RInt(box_height)
            IN  [tag        |-> "fitted",
                 new_width  |-> new_width,
                 new_height |-> new_height,
                 offset_x   |-> RHalf(RSub(RInt(box_width), new_width)),
                 offset_y   |-> RHalf(RSub(RInt(box_height), new_height))]

\* img_ratio = img_width / img_height and box_ratio = box_width / box_height
\* raise on a zero divisor, and so does box_width / img_ratio when
\* img_ratio = 0.  meet clamps the width when img_ratio > box_ratio, slice
\* clamps the width in the other case.
calculate_fitted_dimensions(img_width, img_height, box_width, box_height, mode) ==
    IF img_height = 0 \/ box_height = 0 THEN ZeroDivisionError
    ELSE
      LET img_ratio == R(img_width, img_height)
          box_ratio == R(box_width, box_height)
          clampW    == (mode = "meet") = RLess(box_ratio, img_ratio)
      IN  IF clampW /\ img_ratio[1] = 0 THEN ZeroDivisionError
          ELSE
            LET new_width  == IF clampW THEN RInt(box_width)
                              ELSE RMul(RInt(box_height), img_ratio)
                new_height == IF clampW THEN RDiv(RInt(box_width), img_ratio)
                              ELSE RInt(box_height)
            IN  [tag        |-> "fitted",
                 new_width  |-> new_width,
                 new_height |-> new_height,
                 offset_x   |-> RHalf(RSub(RInt(box_width), new_width)),
                 offset_y   |-> RHalf(RSub(RInt(box_height), new_height))]

MaxFitDim == 4

FitInputs ==
    [img_width : 1..MaxFitDim, img_height : 1..MaxFitDim,
     box_width : 1..MaxFitDim, box_height : 1..MaxFitDim,
     mode : {"meet", "slice"}]

FitIdle == [img_width |-> 1, img_height |-> 1, box_width |-> 1,
            box_height |-> 1, mode |-> "meet"]

Fit ==
    /\ fitOut = None
    /\ fitOut' = calculate_fitted_dimensions(fitIn.img_width, fitIn.img_height,
                                             fitIn.box_width, fitIn.box_height,
                                             fitIn.mode)
    /\ UNCHANGED <<fitIn, probeVars, fixVars, embVars>>

-----------------------------------------------------------------------------
(* Raster signature decoders: fix_image_aspect.py,                         *)
(* get_image_dimensions_basic and the branch of                            *)
(* get_image_dimensions_from_base64 taken without PIL.  A stream is a      *)
(* sequence of byte values; pos is the 0-based file position.              *)

ReadLen == 64

PngMagic == <<137, 80, 78, 71, 13, 10, 26, 10>>

IhdrHead == <<0, 0, 0, 13, 73, 72, 68, 82>>

Min(a, b) == IF a < b THEN a ELSE b


\* Python slice data[lo:hi] of a bytes object (0-based, clipped to its length)
Slice(data, lo, hi) ==
    LET h == Min(hi, Len(data))
    IN  IF lo >= h THEN <<>> ELSE SubSeq(data, lo + 1, h)

RECURSIVE int_from_bytes(_)
\* int.from_bytes(b, "big"); the empty bytes object gives 0
int_from_bytes(b) ==
    IF b = <<>> THEN 0
    ELSE 256 * int_from_bytes(SubSeq(b, 1, Len(b) - 1)) + b[Len(b)]

Dims(w, h) == [tag |-> "dims", width |-> w, height |-> h]

\* lines 51-54 (and 102-105): magic, then the two IHDR fields
PngDimensions(data) ==
    IF Slice(data, 0, 8) = PngMagic
    THEN Dims(int_from_bytes(Slice(data, 16, 20)),
              int_from_bytes(Slice(data, 20, 24)))
    ELSE None

IsJpeg(data) == Slice(data, 0, 2) = <<255, 216>>

\* get_image_dimensions_basic up to the JPEG loop: f.read(64), PNG test,
\* JPEG magic test
ProbeOpen ==
    /\ ppc = "start"
    /\ LET data == Slice(stream, 0, ReadLen)
       IN  IF Slice(data, 0, 8) = PngMagic
           THEN /\ presult' = PngDimensions(data)
                /\ ppc' = "done"
                /\ pos' = 0
           ELSE IF IsJpeg(data)
           THEN /\ ppc' = "scan"
                /\ pos' = 2
                /\ presult' = presult
           ELSE /\ presult' = None
                /\ ppc' = "done"
                /\ pos' = 0
    /\ UNCHANGED <<stream, fitVars, fixVars, embVars>>

\* get_image_dimensions_from_base64 on the decoded payload, HAS_PIL false
ProbeBase64 ==
    /\ ppc = "start"
    /\ presult' = PngDimensions(stream)
    /\ ppc' = "done64"
    /\ UNCHANGED <<stream, pos, fitVars, fixVars, embVars>>

\* one iteration of the while loop of lines 60-80
JpegMarker ==
    /\ ppc = "scan"
    /\ LET marker == Slice(stream, pos, pos + 2)
           p2     == pos + Len(marker)
       IN  IF Len(marker) < 2 \/ marker[1] # 255
           THEN /\ presult' = None /\ ppc' = "done" /\ pos' = pos
           ELSE
             LET m == marker[2]
             IN  IF m \in {192, 194}
                 THEN LET skip == Slice(stream, p2, p2 + 3)
                          p3   == p2 + Len(skip)
                          hb   == Slice(stream, p3, p3 + 2)
                          p4   == p3 + Len(hb)
                          wb   == Slice(stream, p4, p4 + 2)
                      IN  /\ presult' = Dims(int_from_bytes(wb), int_from_bytes(hb))
                          /\ ppc' = "done"
                          /\ pos' = pos
                 ELSE IF m = 217
                 THEN /\ presult' = None /\ ppc' = "done" /\ pos' = pos
                 ELSE IF m = 216 \/ (208 <= m /\ m <= 215)
                 THEN /\ pos' = p2 /\ UNCHANGED <<presult, ppc>>
                 ELSE LET lb     == Slice(stream, p2, p2 + 2)
                          length == int_from_bytes(lb)
                          target == p2 + Len(lb) + length - 2
                      IN  IF target < 0
                          THEN \* f.seek before the start raises, caught at line 82
                               /\ presult' = None /\ ppc' = "done" /\ pos' = pos
                          ELSE /\ pos' = target /\ UNCHANGED <<presult, ppc>>
    /\ UNCHANGED <<stream, fitVars, fixVars, embVars>>

-----------------------------------------------------------------------------
(* Geometry fixer: fix_image_aspect.py, fix_image_aspect_in_svg.           *)
(* A document is the sequence root.iter() walks; x, y, width and height    *)
(* are in tenths of a unit.  href.dims is what get_image_dimensions        *)
(* returns for the reference: None, or the two numbers read from a PNG     *)
(* header, a JPEG frame or an inline SVG viewBox, any of which can be 0.   *)

MaxDim == 14

MaxBox == 2

MaxRuns == 2

Tolerance == 5

Malformed == [tag |-> "malformed"]

NoHref == [tag |-> "None"]

Ref(d) == [tag |-> "ref", dims |-> d]

ProbeResults == {None} \cup {Dims(w, h) : w \in 0..MaxDim, h \in 0..MaxDim}

\* the value of the preserveAspectRatio attribute, "absent" when not set
ParValues == {"absent", "xMidYMid meet", "xMidYMid slice", "none"}

SvgRoot == [tag |-> "svg", href |-> NoHref, geom_ok |-> TRUE, x |-> 0, y |-> 0,
            width |-> 0, height |-> 0, par |-> "absent"]

ImageNode(h, ok, w, ht, p) ==
    [tag |-> "image", href |-> h, geom_ok |-> ok, x |-> 0, y |-> 0,
     width |-> w, height |-> ht, par |-> p]

BoxSizes == {10 * k : k \in 0..MaxBox}

FixImageNodes ==
    {ImageNode(Ref(d), TRUE, w, ht, p) :
        d \in ProbeResults, w \in BoxSizes, ht \in BoxSizes, p \in ParValues}
    \cup {ImageNode(NoHref, TRUE, 10, 10, "absent"),
          ImageNode(Ref(Dims(2, 1)), FALSE, 10, 10, "absent")}

FixDocs == {[tag |-> "doc", nodes |-> <<SvgRoot, n>>] : n \in FixImageNodes}

\* get_image_dimensions(href, svg_dir): the prober's answer for the reference
get_image_dimensions(href) == href.dims

\* "{v:.1f}" of the float standing for the rational q (in tenths): the
\* nearest tenth; on an exact tie either neighbour, by the binary value
RoundTenths(q) ==
    LET f  == q[1] \div q[2]
        r2 == 2 * (q[1] - f * q[2])
    IN  IF r2 < q[2] THEN {f}
        ELSE IF r2 > q[2] THEN {f + 1}
        ELSE {f, f + 1}

\* lines 210-218: the default applies when the attribute is absent
FitMode(par) == IF par = "xMidYMid slice" THEN "slice" ELSE "meet"

\* lines 190-216: the tests that make the loop go on to the next element
\* before the calculator is called
FixSkipsEarly(n) ==
    IF n.tag # "image" THEN TRUE
    ELSE IF n.href = NoHref THEN TRUE
    ELSE IF ~n.geom_ok THEN TRUE
    ELSE IF n.width <= 0 \/ n.height <= 0 THEN TRUE
    ELSE IF n.par = "none" THEN TRUE
    ELSE get_image_dimensions(n.href) = None

\* lines 218-221: the call made for an element that passed the tests
FixCall(n) ==
    LET d == get_image_dimensions(n.href)
    IN  calculate_fitted_dimensions(d.width, d.height, n.width, n.height,
                                    FitMode(n.par))

\* line 223: the tolerance test on the fitted size
WithinTolerance(n, fit) ==
    /\ RLess(RAbs(RSub(fit.new_width, RInt(n.width))), RInt(Tolerance))
    /\ RLess(RAbs(RSub(fit.new_height, RInt(n.height))), RInt(Tolerance))

\* lines 231-237 without the dry_run test
FixApplyAlways(n, fit, dry_run) ==
    {[n EXCEPT !.x = nx, !.y = ny, !.width = nw, !.height = nh, !.par = "absent"] :
        nx \in RoundTenths(RAdd(RInt(n.x), fit.offset_x)),
        ny \in RoundTenths(RAdd(RInt(n.y), fit.offset_y)),
        nw \in RoundTenths(fit.new_width),
        nh \in RoundTenths(fit.new_height)}

\* lines 231-237 with x and y rewritten without the centring offsets
FixApplyNoOffset(n, fit, dry_run) ==
    IF dry_run THEN {n}
    ELSE {[n EXCEPT !.width = nw, !.height = nh, !.par = "absent"] :
            nw \in RoundTenths(fit.new_width),
            nh \in RoundTenths(fit.new_height)}

\* lines 231-237: the possible elements after the rewrite
FixApply(n, fit, dry_run) ==
    IF dry_run THEN {n}
    ELSE {[n EXCEPT !.x = nx, !.y = ny, !.width = nw, !.height = nh, !.par = "absent"] :
            nx \in RoundTenths(RAdd(RInt(n.x), fit.offset_x)),
            ny \in RoundTenths(RAdd(RInt(n.y), fit.offset_y)),
            nw \in RoundTenths(fit.new_width),
            nh \in RoundTenths(fit.new_height)}

NoCall == [tag |-> "None"]

\* lines 175-187: parse the file, or give up on a document that does not parse
FixStart ==
    /\ fpc = "idle"
    /\ fdisk # Malformed
    /\ \E dry_run \in BOOLEAN : fdry' = dry_run
    /\ fnodes' = fdisk.nodes
    /\ fi' = 1
    /\ fixed_count' = 0
    /\ fpc' = "loop"
    /\ lastCall' = NoCall
    /\ UNCHANGED <<fdisk, frun, flog, fitVars, probeVars, embVars>>

FixParseError ==
    /\ fpc = "idle"
    /\ fdisk = Malformed
    /\ fpc' = "done"
    /\ fixed_count' = 0
    /\ flog' = Append(flog, [dry |-> FALSE, count |-> 0, before |-> fdisk,
                             after |-> fdisk, tree |-> fdisk])
    /\ UNCHANGED <<fdisk, fnodes, fi, fdry, frun, lastCall,
                   fitVars, probeVars, embVars>>

\* an element the loop passes over: lines 190-216, or line 223 after the call
FixSkip ==
    /\ fpc = "loop"
    /\ fi <= Len(fnodes)
    /\ LET n == fnodes[fi]
       IN  IF FixSkipsEarly(n)
           THEN lastCall' = NoCall
           ELSE /\ FixCall(n) # ZeroDivisionError
                /\ WithinTolerance(n, FixCall(n))
                /\ lastCall' = [tag |-> "call", idx |-> fi, node |-> n,
                                fit |-> FixCall(n), wrote |-> FALSE]
    /\ fi' = fi + 1
    /\ UNCHANGED <<fdisk, fnodes, fpc, fdry, fixed_count, frun, flog,
                   fitVars, probeVars, embVars>>

\* the division by zero of lines 150-166 is not caught: the run ends there,
\* nothing is written
FixRaise ==
    /\ fpc = "loop"
    /\ fi <= Len(fnodes)
    /\ ~FixSkipsEarly(fnodes[fi])
    /\ FixCall(fnodes[fi]) = ZeroDivisionError
    /\ lastCall' = [tag |-> "call", idx |-> fi, node |-> fnodes[fi],
                    fit |-> ZeroDivisionError, wrote |-> FALSE]
    /\ fpc' = "raised"
    /\ UNCHANGED <<fdisk, fnodes, fi, fdry, fixed_count, frun, flog,
                   fitVars, probeVars, embVars>>

\* lines 226-238
FixRewrite ==
    /\ fpc = "loop"
    /\ fi <= Len(fnodes)
    /\ ~FixSkipsEarly(fnodes[fi])
    /\ FixCall(fnodes[fi]) # ZeroDivisionError
    /\ ~WithinTolerance(fnodes[fi], FixCall(fnodes[fi]))
    /\ \E n2 \in FixApply(fnodes[fi], FixCall(fnodes[fi]), fdry) :
          fnodes' = [fnodes EXCEPT ![fi] = n2]
    /\ lastCall' = [tag |-> "call", idx |-> fi, node |-> fnodes[fi],
                    fit |-> FixCall(fnodes[fi]), wrote |-> ~fdry]
    /\ fixed_count' = fixed_count + 1
    /\ fi' = fi + 1
    /\ UNCHANGED <<fdisk, fpc, fdry, frun, flog, fitVars, probeVars, embVars>>

\* lines 240-242
FixFinish ==
    /\ fpc = "loop"
    /\ fi > Len(fnodes)
    /\ fdisk' = IF ~fdry /\ fixed_count > 0
                THEN [tag |-> "doc", nodes |-> fnodes] ELSE fdisk
    /\ flog' = Append(flog, [dry |-> fdry, count |-> fixed_count,
                             before |-> fdisk, after |-> fdisk',
                             tree |-> [tag |-> "doc", nodes |-> fnodes]])
    /\ fpc' = "done"
    /\ UNCHANGED <<fnodes, fi, fdry, fixed_count, frun, lastCall,
                   fitVars, probeVars, embVars>>

\* the tool is run again on the file the last run left
FixAgain ==
    /\ fpc = "done"
    /\ frun < MaxRuns
    /\ frun' = frun + 1
    /\ fpc' = "idle"
    /\ UNCHANGED <<fdisk, fnodes, fi, fdry, fixed_count, flog, lastCall,
                   fitVars, probeVars, embVars>>

-----------------------------------------------------------------------------
(* Asset embedder: embed_images.py, embed_images_in_svg.                   *)
(* A tree is [root, node, kids]: node maps an element's identity to its    *)
(* attributes, kids to the sequence of its children.  Elements taken out   *)
(* of the tree keep their entry (the Python objects stay alive in          *)
(* images_to_process) but are no longer reachable from the root.           *)

MaxNodes == 3

Path(stem, ext) == [tag |-> "path", stem |-> stem, ext |-> ext]

Data(mime) == [tag |-> "data", mime |-> mime]

PicPng == Path("pic", "png")

NopePng == Path("nope", "png")

ASvg == Path("a", "svg")

BadSvg == Path("bad", "svg")

DirPath == Path("assets", "")

\* what lies at each path of the document's directory: a raster file, a
\* well-formed SVG file, an SVG file that does not parse, a directory, nothing
FileKind(path) ==
    CASE path = PicPng  -> "raster"
      [] path = ASvg    -> "svg"
      [] path = BadSvg  -> "badsvg"
      [] path = DirPath -> "dir"
      [] OTHER          -> "missing"

\* full_path.exists()
Exists(path) == FileKind(path) # "missing"

\* get_mime_type, on the extension of the file name
get_mime_type(ext) ==
    CASE ext = "png"  -> "image/png"
      [] ext = "jpg"  -> "image/jpeg"
      [] ext = "jpeg" -> "image/jpeg"
      [] ext = "gif"  -> "image/gif"
      [] ext = "webp" -> "image/webp"
      [] ext = "svg"  -> "image/svg+xml"
      [] OTHER        -> "application/octet-stream"

ENode(tag, href, ok) ==
    [tag |-> tag, href |-> href, geom_ok |-> ok, x |-> 10, y |-> 20,
     width |-> 40, height |-> 40, transform |-> None]

\* the children of the root of a.svg, as ET.parse builds them
SubRootChildren(fs) == <<ENode("rect", NoHref, TRUE), ENode("image", fs.subHref, TRUE)>>

\* get_svg_dimensions(full_path) of project_utils
get_svg_dimensions(fs) == fs.svgDims

RECURSIVE PreorderAll(_, _)
RECURSIVE Preorder(_, _)
\* root.iter(): the element, then its children's subtrees in order
Preorder(tree, n) == <<n>> \o PreorderAll(tree, tree.kids[n])

PreorderAll(tree, ks) ==
    IF ks = <<>> THEN <<>>
    ELSE Preorder(tree, Head(ks)) \o PreorderAll(tree, Tail(ks))

Elems(seq) == {seq[k] : k \in 1..Len(seq)}

InTree(tree) == Elems(Preorder(tree, tree.root))

\* parent_map.get(c) of line 146-147; 0 stands for None
ParentOf(tree, c) ==
    IF \E p \in InTree(tree) : c \in Elems(tree.kids[p])
    THEN CHOOSE p \in InTree(tree) : c \in Elems(tree.kids[p])
    ELSE 0

\* list(parent).index(c), 1-based
IndexOf(seq, c) == CHOOSE k \in 1..Len(seq) : seq[k] = c /\ \A j \in 1..(k - 1) : seq[j] # c

\* parent.insert(idx, e)
InsertAt(seq, k, e) == SubSeq(seq, 1, k - 1) \o <<e>> \o SubSeq(seq, k, Len(seq))

\* parent.remove(c): the first occurrence goes
RemoveFirst(seq, c) ==
    LET k == IndexOf(seq, c)
    IN  SubSeq(seq, 1, k - 1) \o SubSeq(seq, k + 1, Len(seq))

\* lines 73-76
CollectImages(tree) ==
    SelectSeq(Preorder(tree, tree.root), LAMBDA n : tree.node[n].tag = "image")

\* tree.write: what is on disk is what hangs from the root
Serialize(tree) ==
    [root |-> tree.root,
     node |-> [n \in InTree(tree) |-> tree.node[n]],
     kids |-> [n \in InTree(tree) |-> tree.kids[n]]]

\* lines 119-137: the <g> element; scale is w/sw, h/sh or 1, 1.  origin
\* records which element the <g> was built for.
GroupFor(id, img, fs) ==
    LET d == get_svg_dimensions(fs)
    IN  [tag |-> "g", href |-> NoHref, geom_ok |-> TRUE, x |-> 0, y |-> 0,
         width |-> 0, height |-> 0, origin |-> id,
         transform |->
            [tag |-> "transform", tx |-> img.x, ty |-> img.y,
             sx |-> IF d # None /\ d.width # 0 /\ d.height # 0
                    THEN R(img.width, d.width) ELSE RInt(1),
             sy |-> IF d # None /\ d.width # 0 /\ d.height # 0
                    THEN R(img.height, d.height) ELSE RInt(1)]]

\* lines 139-151: the tree with g, holding the children of the parsed
\* sub-document, put where img was; g and its children get fresh identities
ReplaceInTree(tree, img, g, fs) ==
    LET subs   == SubRootChildren(fs)
        parent == ParentOf(tree, img)
    IN  [root |-> tree.root,
         node |-> [n \in DOMAIN tree.node \cup (g..(g + Len(subs))) |->
                     IF n = g THEN GroupFor(img, tree.node[img], fs)
                     ELSE IF n > g THEN subs[n - g]
                     ELSE tree.node[n]],
         kids |-> [n \in DOMAIN tree.node \cup (g..(g + Len(subs))) |->
                     IF n = g THEN [k \in 1..Len(subs) |-> g + k]
                     ELSE IF n > g THEN <<>>
                     ELSE IF n = parent
                     THEN RemoveFirst(
                            InsertAt(tree.kids[n], IndexOf(tree.kids[n], img), g), img)
                     ELSE tree.kids[n]]]

\* lines 82-90: nothing to do for this element
EmbedSkips(n) ==
    IF n.href = NoHref THEN TRUE
    ELSE IF n.href.tag = "data" THEN TRUE
    ELSE ~Exists(n.href)

\* lines 100-155: the reference is an .svg file and nothing raises while the
\* sub-document is parsed and the geometry read
InlineSucceeds(n) ==
    /\ n.href.ext = "svg"
    /\ FileKind(n.href) = "svg"
    /\ n.geom_ok

\* lines 168-171
SetHref(tree, img, h) == [tree EXCEPT !.node[img].href = h]

\* lines 55-76: parse the file and collect the <image> elements
EmbedStart ==
    /\ epc = "idle"
    /\ edisk # Malformed
    /\ \E dry_run \in BOOLEAN : edry' = dry_run
    /\ etree' = edisk
    /\ images_to_process' = CollectImages(edisk)
    /\ ei' = 1
    /\ images_embedded' = 0
    /\ modified' = FALSE
    /\ epc' = "loop"
    /\ UNCHANGED <<edisk, erun, elog, fsys, nextId, fitVars, probeVars, fixVars>>

\* lines 63-65: the document does not parse, (0, 0) is returned
EmbedParseError ==
    /\ epc = "idle"
    /\ edisk = Malformed
    /\ epc' = "done"
    /\ images_embedded' = 0
    /\ elog' = Append(elog, [dry |-> FALSE, count |-> 0, before |-> edisk,
                             after |-> edisk, parsed |-> edisk, tree |-> edisk,
                             queue |-> <<>>])
    /\ UNCHANGED <<edisk, etree, images_to_process, ei, edry, modified, erun,
                   fsys, nextId, fitVars, probeVars, fixVars>>

\* lines 79-90: no reference, a reference already inline, or a missing file
EmbedSkip ==
    /\ epc = "loop"
    /\ ei <= Len(images_to_process)
    /\ EmbedSkips(etree.node[images_to_process[ei]])
    /\ ei' = ei + 1
    /\ UNCHANGED <<edisk, etree, epc, images_to_process, edry, images_embedded,
                   modified, erun, elog, fsys, nextId, fitVars, probeVars, fixVars>>

\* lines 94-97
EmbedPreview ==
    /\ epc = "loop"
    /\ ei <= Len(images_to_process)
    /\ ~EmbedSkips(etree.node[images_to_process[ei]])
    /\ edry
    /\ images_embedded' = images_embedded + 1
    /\ ei' = ei + 1
    /\ UNCHANGED <<edisk, etree, epc, images_to_process, edry, modified, erun,
                   elog, fsys, nextId, fitVars, probeVars, fixVars>>

\* lines 100-155 when the element has a parent in the tree
EmbedInline ==
    /\ epc = "loop"
    /\ ei <= Len(images_to_process)
    /\ LET img == images_to_process[ei]
       IN  /\ ~EmbedSkips(etree.node[img])
           /\ ~edry
           /\ InlineSucceeds(etree.node[img])
           /\ ParentOf(etree, img) # 0
           /\ etree' = ReplaceInTree(etree, img, nextId, fsys)
           /\ nextId' = nextId + 1 + Len(SubRootChildren(fsys))
    /\ images_embedded' = images_embedded + 1
    /\ modified' = TRUE
    /\ ei' = ei + 1
    /\ UNCHANGED <<edisk, epc, images_to_process, edry, erun, elog, fsys,
                   fitVars, probeVars, fixVars>>

\* lines 100-155 when parent_map has no entry for the element: the <g> that
\* was built is dropped and line 155 goes on to the next element
EmbedInlineNoParent ==
    /\ epc = "loop"
    /\ ei <= Len(images_to_process)
    /\ LET img == images_to_process[ei]
       IN  /\ ~EmbedSkips(etree.node[img])
           /\ ~edry
           /\ InlineSucceeds(etree.node[img])
           /\ ParentOf(etree, img) = 0
    /\ ei' = ei + 1
    /\ UNCHANGED <<edisk, etree, epc, images_to_process, edry, images_embedded,
                   modified, erun, elog, fsys, nextId, fitVars, probeVars, fixVars>>

\* lines 161-175: a raster file, or an .svg file whose inlining raised
EmbedBase64 ==
    /\ epc = "loop"
    /\ ei <= Len(images_to_process)
    /\ LET img == images_to_process[ei]
           n   == etree.node[img]
       IN  /\ ~EmbedSkips(n)
           /\ ~edry
           /\ ~InlineSucceeds(n)
           /\ FileKind(n.href) # "dir"
           /\ etree' = SetHref(etree, img, Data(get_mime_type(n.href.ext)))
    /\ images_embedded' = images_embedded + 1
    /\ modified' = TRUE
    /\ ei' = ei + 1
    /\ UNCHANGED <<edisk, epc, images_to_process, edry, erun, elog, fsys, nextId,
                   fitVars, probeVars, fixVars>>

\* lines 161-163 and 176-177: open() raises (the path is a directory)
EmbedReadError ==
    /\ epc = "loop"
    /\ ei <= Len(images_to_process)
    /\ LET n == etree.node[images_to_process[ei]]
       IN  /\ ~EmbedSkips(n)
           /\ ~edry
           /\ ~InlineSucceeds(n)
           /\ FileKind(n.href) = "dir"
    /\ ei' = ei + 1
    /\ UNCHANGED <<edisk, etree, epc, images_to_process, edry, images_embedded,
                   modified, erun, elog, fsys, nextId, fitVars, probeVars, fixVars>>

\* lines 179-182
EmbedFinish ==
    /\ epc = "loop"
    /\ ei > Len(images_to_process)
    /\ edisk' = IF modified /\ ~edry THEN Serialize(etree) ELSE edisk
    /\ elog' = Append(elog, [dry |-> edry, count |-> images_embedded,
                             before |-> edisk, after |-> edisk',
                             parsed |-> edisk, tree |-> etree,
                             queue |-> images_to_process])
    /\ epc' = "done"
    /\ UNCHANGED <<etree, images_to_process, ei, edry, images_embedded, modified,
                   erun, fsys, nextId, fitVars, probeVars, fixVars>>

\* the tool is run again on the file the last run left
EmbedAgain ==
    /\ epc = "done"
    /\ erun < MaxRuns
    /\ erun' = erun + 1
    /\ epc' = "idle"
    /\ UNCHANGED <<edisk, etree, images_to_process, ei, edry, images_embedded,
                   modified, elog, fsys, nextId, fitVars, probeVars, fixVars>>

-----------------------------------------------------------------------------
(* Initial states.                                                         *)

FitOff == fitIn = FitIdle /\ fitOut = [tag |-> "off"]

ProbeOff == stream = <<>> /\ ppc = "off" /\ pos = 0 /\ presult = None

FixOff ==
    /\ fdisk = Malformed /\ fnodes = <<>> /\ fpc = "off" /\ fi = 1
    /\ fdry = FALSE /\ fixed_count = 0 /\ frun = 1 /\ flog = <<>>
    /\ lastCall = NoCall

EmbedOff ==
    /\ edisk = Malformed /\ etree = Malformed /\ epc = "off"
    /\ images_to_process = <<>> /\ ei = 1 /\ edry = FALSE
    /\ images_embedded = 0 /\ modified = FALSE /\ erun = 1 /\ elog = <<>>
    /\ fsys = [subHref |-> PicPng, svgDims |-> None] /\ nextId = 1

InitFit ==
    /\ fitIn \in FitInputs /\ fitOut = None
    /\ ProbeOff /\ FixOff /\ EmbedOff

\* a JPEG marker segment: start of frame with a height and a width, an
\* application segment with two bytes of payload, a restart marker, the end
\* marker, and a segment whose length field is 0
MaxField == 2

MaxStream == 24

JpegSegments ==
    {<<255, 192, 0, 11, 8, 0, h, 0, w>> : h \in 0..MaxField, w \in 0..MaxField}
    \cup {<<255, 224, 0, 4, 74, 70>>, <<255, 208>>, <<255, 217>>,
          <<255, 225, 0, 0>>}

PngFiles ==
    {PngMagic \o IhdrHead \o <<0, 0, 0, w, 0, 0, 0, h>> :
        w \in 0..MaxField, h \in 0..MaxField}

JpegFiles ==
    {<<255, 216>> \o a \o b : a \in JpegSegments, b \in JpegSegments}

\* every file and every truncation of it
Streams == {Slice(f, 0, k) : f \in PngFiles \cup JpegFiles, k \in 0..MaxStream}

InitProbe ==
    /\ stream \in Streams
    /\ ppc = "start" /\ pos = 0 /\ presult = None
    /\ FitOff /\ FixOff /\ EmbedOff

InitFix ==
    /\ fdisk \in FixDocs \cup {Malformed}
    /\ fnodes = <<>> /\ fpc = "idle" /\ fi = 1 /\ fdry = FALSE
    /\ fixed_count = 0 /\ frun = 1 /\ flog = <<>> /\ lastCall = NoCall
    /\ FitOff /\ ProbeOff /\ EmbedOff

ImageVariants ==
    {ENode("image", h, TRUE) :
        h \in {NoHref, Data("image/png"), NopePng, PicPng, ASvg, BadSvg, DirPath}}
    \cup {ENode("image", ASvg, FALSE)}

NodeVariants == ImageVariants \cup {ENode("rect", NoHref, TRUE)}

RootVariants == ImageVariants \cup {ENode("svg", NoHref, TRUE)}

\* the children of p, in document order, for a parent vector
KidsOf(par, N, p) ==
    LET S == {c \in 2..N : par[c] = p}
    IN  [k \in 1..Cardinality(S) |->
            CHOOSE c \in S : Cardinality({d \in S : d < c}) = k - 1]

\* the documents of at most M elements
EmbedDocs(M) ==
    UNION {
      UNION {
        LET kids == [n \in 1..N |-> KidsOf(par, N, n)]
        IN  {[root |-> 1,
              node |-> [n \in 1..N |-> IF n = 1 THEN r ELSE a[n]],
              kids |-> kids] :
                r \in RootVariants, a \in [2..N -> NodeVariants]}
        : par \in {q \in [2..N -> 1..N] : \A c \in 2..N : q[c] < c}}
      : N \in 1..M}

FileSystems ==
    [subHref : {PicPng, NopePng, ASvg}, svgDims : {None, Dims(20, 40)}]

InitEmbed ==
    /\ edisk \in EmbedDocs(MaxNodes) \cup {Malformed}
    /\ fsys \in FileSystems
    /\ etree = Malformed /\ epc = "idle" /\ images_to_process = <<>>
    /\ ei = 1 /\ edry = FALSE /\ images_embedded = 0 /\ modified = FALSE
    /\ erun = 1 /\ elog = <<>>
    /\ nextId = MaxNodes + 1
    /\ FitOff /\ ProbeOff /\ FixOff

Init == InitFix \/ InitEmbed

NextFit == Fit

NextProbe == ProbeOpen \/ ProbeBase64 \/ JpegMarker

NextFix ==
    \/ FixStart \/ FixParseError \/ FixSkip \/ FixRaise \/ FixRewrite
    \/ FixFinish \/ FixAgain

NextEmbed ==
    \/ EmbedStart \/ EmbedParseError \/ EmbedSkip \/ EmbedPreview
    \/ EmbedInline \/ EmbedInlineNoParent \/ EmbedBase64 \/ EmbedReadError
    \/ EmbedFinish \/ EmbedAgain

Next == NextFix \/ NextEmbed

SpecFit == InitFit /\ [][NextFit]_vars

SpecProbe == InitProbe /\ [][NextProbe]_vars

SpecFix == InitFix /\ [][NextFix]_vars

SpecEmbed == InitEmbed /\ [][NextEmbed]_vars

Spec == Init /\ [][Next]_vars

-----------------------------------------------------------------------------
(* Properties.                                                             *)

FullyRead ==
    IF Slice(stream, 0, 8) = PngMagic THEN Len(stream) >= 24
    ELSE pos + 9 <= Len(stream)

\* C5: the PNG and JPEG signature decoders answer Unknown for a truncated
\* stream; a numeric (width, height) is returned only when both fields were
\* read in full from the stream.
DecodersRejectTruncated ==
    (ppc \in {"done", "done64"} /\ presult.tag = "dims") => FullyRead

\* C9: on every call of the calculator made by the fixer the box width, the
\* box height, the intrinsic width and the intrinsic height are all > 0.
CalculatorArgsPositive ==
    lastCall.tag = "call" =>
        /\ lastCall.node.width > 0
        /\ lastCall.node.height > 0
        /\ get_image_dimensions(lastCall.node.href).width > 0
        /\ get_image_dimensions(lastCall.node.href).height > 0

PositiveIntrinsic(doc) ==
    \A k \in 1..Len(doc.nodes) :
        (doc.nodes[k].tag = "image" /\ doc.nodes[k].href # NoHref) =>
            /\ get_image_dimensions(doc.nodes[k].href) # None
            /\ get_image_dimensions(doc.nodes[k].href).width > 0
            /\ get_image_dimensions(doc.nodes[k].href).height > 0

\* C2: when a run of the fixer has rewritten a box (positive box, meet or
\* slice, known positive intrinsic dimensions), the next run on the file it
\* wrote rewrites nothing: its count is 0 and the file is left as it was.
FixerSecondRunIdle ==
    \A k \in 1..(Len(flog) - 1) :
        ( /\ ~flog[k].dry /\ ~flog[k + 1].dry
          /\ flog[k].count > 0
          /\ PositiveIntrinsic(flog[k].before) )
        => /\ flog[k + 1].count = 0
           /\ flog[k + 1].after = flog[k + 1].before

\* the element just rewritten by a run that is not a dry run
JustRewritten ==
    /\ lastCall.tag = "call"
    /\ lastCall.wrote
    /\ fpc = "loop"
    /\ fi = lastCall.idx + 1

\* C8 as stated: the rectangle stored by a rewrite (the rounded x, y, width,
\* height) lies inside the original box under meet, covers it under slice,
\* and has the centre of the original box on both axes.
StoredBoxContainedCentred ==
    JustRewritten =>
        LET o == lastCall.node
            n == fnodes[lastCall.idx]
        IN  /\ IF FitMode(o.par) = "meet"
               THEN /\ n.x >= o.x /\ n.x + n.width <= o.x + o.width
                    /\ n.y >= o.y /\ n.y + n.height <= o.y + o.height
               ELSE /\ n.x <= o.x /\ n.x + n.width >= o.x + o.width
                    /\ n.y <= o.y /\ n.y + n.height >= o.y + o.height
            /\ 2 * n.x + n.width = 2 * o.x + o.width
            /\ 2 * n.y + n.height = 2 * o.y + o.height

HalfTenth == R(1, 2)

\* C8 as amended: the rectangle the calculator returned for a rewrite lies
\* inside the original box under meet, covers it under slice and is centred
\* on it; each stored attribute is that rectangle's value rounded to one
\* decimal, so it is within 0.05 of it.
FittedBoxContainedCentred ==
    JustRewritten =>
        LET o  == lastCall.node
            n  == fnodes[lastCall.idx]
            f  == lastCall.fit
            fx == RAdd(RInt(o.x), f.offset_x)
            fy == RAdd(RInt(o.y), f.offset_y)
        IN  /\ IF FitMode(o.par) = "meet"
               THEN /\ RLeq(RInt(o.x), fx) /\ RLeq(RInt(o.y), fy)
                    /\ RLeq(RAdd(fx, f.new_width), RInt(o.x + o.width))
                    /\ RLeq(RAdd(fy, f.new_height), RInt(o.y + o.height))
               ELSE /\ RLeq(fx, RInt(o.x)) /\ RLeq(fy, RInt(o.y))
                    /\ RLeq(RInt(o.x + o.width), RAdd(fx, f.new_width))
                    /\ RLeq(RInt(o.y + o.height), RAdd(fy, f.new_height))
            /\ REq(RAdd(fx, RHalf(f.new_width)), R(2 * o.x + o.width, 2))
            /\ REq(RAdd(fy, RHalf(f.new_height)), R(2 * o.y + o.height, 2))
            /\ RLeq(RAbs(RSub(RInt(n.x), fx)), HalfTenth)
            /\ RLeq(RAbs(RSub(RInt(n.y), fy)), HalfTenth)
            /\ RLeq(RAbs(RSub(RInt(n.width), f.new_width)), HalfTenth)
            /\ RLeq(RAbs(RSub(RInt(n.height), f.new_height)), HalfTenth)
            /\ n.par = "absent"

\* a rewrite whose stored rectangle is off the centre of the original box
RewriteOffCentre ==
    /\ JustRewritten
    /\ 2 * fnodes[lastCall.idx].y + fnodes[lastCall.idx].height
         # 2 * lastCall.node.y + lastCall.node.height

\* the elements of a parsed document that a run tries to embed: collected
\* <image> elements whose reference is external and exists
Attempted(doc) ==
    {k \in 1..Len(CollectImages(doc)) : ~EmbedSkips(doc.node[CollectImages(doc)[k]])}

\* C6: a dry run of either pass leaves the tree and the file as they were,
\* and its count is the number of embeddings or fixes of a real run: the
\* fixer's next real run on the same file counts the same, the embedder's
\* count is the number of elements a real run tries to embed (and the next
\* real run embeds no more than that).
DryRunChangesNothing ==
    /\ (fpc \in {"loop", "raised"} /\ fdry) => fnodes = fdisk.nodes
    /\ \A k \in 1..Len(flog) :
          flog[k].dry =>
             /\ flog[k].after = flog[k].before
             /\ flog[k].tree = flog[k].before
             /\ (k < Len(flog) /\ ~flog[k + 1].dry)
                   => flog[k + 1].count = flog[k].count
    /\ (epc = "loop" /\ edry) => etree = edisk
    /\ \A k \in 1..Len(elog) :
          elog[k].dry =>
             /\ elog[k].after = elog[k].before
             /\ elog[k].tree = elog[k].parsed
             /\ elog[k].count = Cardinality(Attempted(elog[k].parsed))
             /\ (k < Len(elog) /\ ~elog[k + 1].dry)
                   => elog[k + 1].count <= elog[k].count

\* a dry run of the embedder counted an embedding and the real run that
\* followed changed the file
DryRunThenRealRun ==
    /\ Len(elog) >= 2
    /\ elog[1].dry /\ elog[1].count > 0
    /\ ~elog[2].dry /\ elog[2].after # elog[2].before

\* C1: when a run of the embedder that is not a dry run is followed by
\* another on the file it left, the second embeds nothing: its count is 0
\* and no element is rewritten.
EmbedderSecondRunIdle ==
    \A k \in 1..(Len(elog) - 1) :
        (~elog[k].dry /\ ~elog[k + 1].dry)
        => /\ elog[k + 1].count = 0
           /\ elog[k + 1].tree = elog[k + 1].parsed
           /\ elog[k + 1].after = elog[k + 1].before

\* a <g> built for the element stands in the tree
ReplacedByGroup(tree, n) ==
    \E g \in InTree(tree) : tree.node[g].tag = "g" /\ tree.node[g].origin = n

\* the element's reference has become an inline data representation
HrefInline(tree, n) == tree.node[n].href.tag = "data"

RegularFile(path) == FileKind(path) \in {"raster", "svg", "badsvg"}

MissingIn(run) ==
    {n \in Elems(run.queue) :
        /\ run.parsed.node[n].href.tag = "path"
        /\ ~Exists(run.parsed.node[n].href)}

\* C4: in a real run over a document with a placement node whose file is
\* missing, that node is left as it was and not counted, and every other
\* placement node whose reference is an existing file is embedded.
MissingSkippedOthersEmbedded ==
    \A k \in 1..Len(elog) :
        (~elog[k].dry /\ elog[k].parsed # Malformed /\ MissingIn(elog[k]) # {})
        => LET run == elog[k]
               embedded == {n \in Elems(run.queue) :
                               ReplacedByGroup(run.tree, n) \/ HrefInline(run.tree, n)}
           IN  /\ \A n \in MissingIn(run) :
                     /\ run.tree.node[n] = run.parsed.node[n]
                     /\ n \notin embedded
               /\ \A n \in Elems(run.queue) :
                     ( /\ run.parsed.node[n].href.tag = "path"
                       /\ RegularFile(run.parsed.node[n].href) )
                     => n \in embedded
               /\ run.count = Cardinality(
                     {n \in embedded : run.parsed.node[n].href.tag = "path"})

\* C7: after a real run every placement node that referenced an existing
\* .svg file has either been replaced in the tree by its <g>, or has its
\* reference rewritten to inline data (and is still in the tree): one of the
\* two, never neither.
SvgReferenceResolved ==
    \A k \in 1..Len(elog) :
        (~elog[k].dry /\ elog[k].parsed # Malformed)
        => \A n \in Elems(elog[k].queue) :
              ( /\ elog[k].parsed.node[n].href.tag = "path"
                /\ elog[k].parsed.node[n].href.ext = "svg"
                /\ RegularFile(elog[k].parsed.node[n].href) )
              => ( ReplacedByGroup(elog[k].tree, n)
                   # (HrefInline(elog[k].tree, n) /\ n \in InTree(elog[k].tree)) )

\* the step is a structural inlining: a <g> with a fresh identity appears
Inlining == epc = "loop" /\ nextId' > nextId

\* C10: a structural inlining puts the <g> at the index the placement node
\* had under its parent and leaves the parent's child count unchanged; every
\* other node of the document keeps its parent and its children in order;
\* every placement node still to be visited is in the tree afterwards.
ReplacementKeepsOthers ==
    [][Inlining =>
        LET img == images_to_process[ei]
            p   == ParentOf(etree, img)
        IN  /\ Len(etree'.kids[p]) = Len(etree.kids[p])
            /\ etree'.kids[p][IndexOf(etree.kids[p], img)] = nextId
            /\ \A n \in InTree(etree) \ {img} :
                  /\ n \in InTree(etree')
                  /\ ParentOf(etree', n) = ParentOf(etree, n)
                  /\ n # p => etree'.kids[n] = etree.kids[n]
                  /\ etree'.node[n] = etree.node[n]
            /\ \A j \in (ei + 1)..Len(images_to_process) :
                  images_to_process[j] \in InTree(etree')
    ]_vars

====
